---- MODULE Spec2Model ----
(***************************************************************************)
(* Model of pytorch_fitmodule/fit_module.py: FitModule.fit and             *)
(* FitModule.predict.                                                      *)
(*                                                                         *)
(* Tensors are sequences of rows.  A row of x is identified by its sample  *)
(* id 0..N-1; the row of y paired with it is TargetOf(id).  Python's None  *)
(* and optional values are sequences of length 0 or 1, a Python tuple or   *)
(* list is a sequence.  The loss value is an exact rational <<num, den>>.  *)
(* Floating point arithmetic of the validation split is IEEE-754 binary64  *)
(* on strings of limbs.  verbose only prints (ProgressBar) and is left     *)
(* out; so is the state of the optimizer beyond the steps it has made.     *)
(***************************************************************************)
EXTENDS Integers, Sequences, FiniteSets, TLC

VARIABLES
    args,        \* the arguments of the call and the shape of the module
    pc,          \* position of the caller and of fit
    calls,       \* number of fit calls started
    rng,         \* state of the global numpy random generator
    torch_rng,   \* state of the global torch random generator
    training,    \* Module.training, set by train() and eval()
    steps,       \* the parameters, as the number of opt.step() calls made
    x, y,        \* fit's local x, y (after the validation split)
    val_x, val_y,
    n,
    train_idxs,
    t,
    batches,
    batch_i,
    n_run,
    epoch_loss,
    log,
    logs,
    y_pred,      \* what the predict call returned (optional)
    writes,      \* history: per row, the assignments predict made to it
    seen,        \* history: batch_idxs of the batches of the current epoch
    sum_loss,    \* history: summed per-sample loss of the current epoch
    trace,       \* history: batch_idxs of every batch of the current call
    prev_trace,  \* history: trace of the previous fit call
    epochs_run,  \* history: t of every log appended by the current call
    predicts     \* history: number of predict calls made by the current call

vars == <<args, pc, calls, rng, torch_rng, training, steps, x, y, val_x, val_y,
          n, train_idxs, t, batches, batch_i, n_run, epoch_loss, log, logs,
          y_pred, writes, seen, sum_loss, trace, prev_trace, epochs_run,
          predicts>>

-----------------------------------------------------------------------------
(* Bounds of the model.                                                    *)

MaxN == 3

MaxBatchSize == 3

MaxEpochs == 2

MaxInitialEpoch == 1

MaxSplitN == 10

MaxPredictN == 12

MaxPredictBatch == 5

MaxOutDim == 2

-----------------------------------------------------------------------------
(* Python values.                                                          *)

None == <<>>

Some(v) == <<v>>

Min(a, b) == IF a < b THEN a ELSE b

Range(s) == {s[i] : i \in DOMAIN s}

\* np.arange(k)
Arange(k) == [i \in 1..k |-> i - 1]

\* t[a:b] on a tensor of rows, 0 <= a <= b <= len
Slice(s, a, b) == SubSeq(s, a + 1, b)

TargetOf(id) == 50 + id

\* the x and y tensors of N samples handed to fit
DataX(N) == [i \in 1..N |-> i - 1]

DataY(N) == [i \in 1..N |-> TargetOf(i - 1)]

\* explicit validation tensors of m samples (ids apart from the training ids)
ValidationX(m) == [i \in 1..m |-> 100 + i - 1]

ValidationY(m) == [i \in 1..m |-> TargetOf(100 + i - 1)]

-----------------------------------------------------------------------------
(* IEEE-754 binary64 arithmetic, as far as                                 *)
(*     int(x.size()[0] * (1. - validation_split))                          *)
(* needs it.  A number is a fixed-point string of six limbs of LimbBits    *)
(* bits, most significant first: the first limb is the integer part, the   *)
(* other five are the bits after the binary point.  Every double in        *)
(* [2^-12, 2^13) is exactly such a string.                                 *)

Precision == 53

LimbBits == 13

Base == 2 ^ LimbBits

Width == 6 * LimbBits

\* bit i of the string, i = 1 the most significant
Bit(L, i) ==
    (L[(i - 1) \div LimbBits + 1] \div (2 ^ (LimbBits - 1 - ((i - 1) % LimbBits)))) % 2

\* carry propagation, from the least significant limb
Normal(L) ==
    LET c5 == L[6] \div Base
        c4 == (L[5] + c5) \div Base
        c3 == (L[4] + c4) \div Base
        c2 == (L[3] + c3) \div Base
        c1 == (L[2] + c2) \div Base
    IN  <<L[1] + c1, (L[2] + c2) % Base, (L[3] + c3) % Base,
          (L[4] + c4) % Base, (L[5] + c5) % Base, L[6] % Base>>

\* number of bits of limb j that lie after bit position last
Dropped(j, last) ==
    IF j * LimbBits <= last THEN 0
    ELSE IF j * LimbBits - last >= LimbBits THEN LimbBits
         ELSE j * LimbBits - last

\* the string cut after bit position last
Kept(L, last) ==
    <<L[1] - (L[1] % (2 ^ Dropped(1, last))), L[2] - (L[2] % (2 ^ Dropped(2, last))),
      L[3] - (L[3] % (2 ^ Dropped(3, last))), L[4] - (L[4] % (2 ^ Dropped(4, last))),
      L[5] - (L[5] % (2 ^ Dropped(5, last))), L[6] - (L[6] % (2 ^ Dropped(6, last)))>>

\* one unit in bit position pos, as an unnormalised addend to limb j
Ulp(j, pos) ==
    IF (pos - 1) \div LimbBits + 1 = j THEN 2 ^ (j * LimbBits - pos) ELSE 0

AddUlp(L, pos) ==
    Normal(<<L[1] + Ulp(1, pos), L[2] + Ulp(2, pos), L[3] + Ulp(3, pos),
             L[4] + Ulp(4, pos), L[5] + Ulp(5, pos), L[6] + Ulp(6, pos)>>)

\* round to nearest, ties to even, at Precision significant bits; sticky
\* says that the exact value has non-zero bits beyond the string
RoundBits(L, sticky) ==
    IF \A i \in 1..Width : Bit(L, i) = 0 THEN L
    ELSE LET lead == CHOOSE i \in 1..Width :
                         Bit(L, i) = 1 /\ \A j \in 1..(i - 1) : Bit(L, j) = 0
             last == lead + Precision - 1
         IN  IF last >= Width THEN L
             ELSE LET guard == Bit(L, last + 1)
                      rest  == sticky \/ \E i \in (last + 2)..Width : Bit(L, i) = 1
                  IN  IF guard = 1 /\ (rest \/ Bit(L, last) = 1)
                      THEN AddUlp(Kept(L, last), last)
                      ELSE Kept(L, last)

\* the double nearest to the decimal fraction num/den, 0 <= num < den,
\* by long division, one limb at a time
FloatOf(num, den) ==
    LET q1 == (num * Base) \div den
        r1 == (num * Base) % den
        q2 == (r1 * Base) \div den
        r2 == (r1 * Base) % den
        q3 == (r2 * Base) \div den
        r3 == (r2 * Base) % den
        q4 == (r3 * Base) \div den
        r4 == (r3 * Base) % den
        q5 == (r4 * Base) \div den
        r5 == (r4 * Base) % den
    IN  RoundBits(<<0, q1, q2, q3, q4, q5>>, r5 /= 0)

\* 1. - d for a double 0 <= d <= 1: the complement of the fraction, plus
\* one unit in the last place
FloatOneMinus(d) ==
    RoundBits(AddUlp(<<0, Base - 1 - d[2], Base - 1 - d[3], Base - 1 - d[4],
                       Base - 1 - d[5], Base - 1 - d[6]>>, Width),
              FALSE)

\* k * r for an integer 0 <= k < Base and a double r (float(k) is exact)
FloatTimes(k, r) ==
    RoundBits(Normal(<<k * r[1], k * r[2], k * r[3], k * r[4], k * r[5], k * r[6]>>),
              FALSE)

\* int(f) for a double f >= 0: truncation
FloatToInt(f) == f[1]

\* a validation_split argument is the decimal fraction <<num, den>>
IsZero(vs) == vs[1] = 0

\* 0. < validation_split < 1.
InUnitInterval(vs) == 0 < vs[1] /\ vs[1] < vs[2]

\* split = int(x.size()[0] * (1. - validation_split))
SplitIndex(N, vs) ==
    FloatToInt(FloatTimes(N, FloatOneMinus(FloatOf(vs[1], vs[2]))))

-----------------------------------------------------------------------------
(* Exact rationals <<num, den>>, den > 0, for the loss values.             *)

RatAdd(a, b) == <<a[1] * b[2] + b[1] * a[2], a[2] * b[2]>>

RatDiv(a, k) == <<a[1], a[2] * k>>

RatEq(a, b) == a[1] * b[2] = b[1] * a[2]

RECURSIVE SumSeq(_)
SumSeq(s) == IF s = <<>> THEN 0 ELSE s[1] + SumSeq(Tail(s))

-----------------------------------------------------------------------------
(* The global random generator of numpy: a deterministic generator whose   *)
(* draws are a function of its state.                                      *)

NextRng(s) == (5 * s + 1) % 8

\* np.random.seed(seed)
SeedRng(seed) == seed % 8

\* np.random.shuffle(arr), in place: Fisher-Yates from the last position
\* down; gives <<arr, generator state>>
RECURSIVE ShuffleFrom(_, _, _)
ShuffleFrom(arr, i, s) ==
    IF i <= 1 THEN <<arr, s>>
    ELSE LET s1 == NextRng(s)
             j  == (s1 % i) + 1
         IN  ShuffleFrom([arr EXCEPT ![i] = arr[j], ![j] = arr[i]], i - 1, s1)

Shuffle(arr, s) == ShuffleFrom(arr, Len(arr), s)

-----------------------------------------------------------------------------
(* utils.py.                                                               *)

\* make_batches(size, batch_size): the half-open ranges (start, end)
make_batches(size, batch_size) ==
    [i \in 1..((size + batch_size - 1) \div batch_size) |->
        <<(i - 1) * batch_size, Min(size, i * batch_size)>>]

\* Log(): a mapping from names to values
Log == [k \in {} |-> 0]

LogSet(l, key, value) ==
    [k \in DOMAIN l \cup {key} |-> IF k = key THEN value ELSE l[k]]

\* a metric function is known by its name; its value is the application
Metric(name, y_true, y_hat) == [metric |-> name, y_true |-> y_true, y_pred |-> y_hat]

\* add_metrics_to_log(log, metrics, y_true, y_pred, prefix)
RECURSIVE add_metrics_to_log(_, _, _, _, _)
add_metrics_to_log(l, metrics, y_true, y_hat, prefix) ==
    IF metrics = <<>> THEN l
    ELSE add_metrics_to_log(
             LogSet(l, prefix \o Head(metrics), Metric(Head(metrics), y_true, y_hat)),
             Tail(metrics), y_true, y_hat, prefix)

\* the prefix add_metrics_to_log uses when none is passed
DefaultPrefix == "train_"

-----------------------------------------------------------------------------
(* The collaborators: the module's forward computation and the loss.       *)

\* self(x_batch), row by row: an output row of out_dim entries, none zero,
\* that depends on the input row and on the parameters
ForwardRow(row, w, out_dim) == [j \in 1..out_dim |-> 1000 * w + 10 * (row + 1) + j]

Forward(x_batch, w, out_dim) ==
    [k \in 1..Len(x_batch) |-> ForwardRow(x_batch[k], w, out_dim)]

\* the loss of one sample
SampleLoss(pred_row, target) == 1 + ((pred_row[1] + target) % 3)

\* loss(y_batch_pred, y_batch): the mean over the batch, as CrossEntropyLoss()
Loss(y_batch_pred, y_batch) ==
    <<SumSeq([k \in 1..Len(y_batch) |-> SampleLoss(y_batch_pred[k], y_batch[k])]),
      Len(y_batch)>>

\* t[idxs] for a tensor of rows and a sequence of 0-based indices
Index(tensor, idxs) == [k \in 1..Len(idxs) |-> tensor[idxs[k] + 1]]

-----------------------------------------------------------------------------
(* FitModule.predict.                                                      *)

\* torch.zeros((n,) + shape): n rows of zeros
Zeros(rows, out_dim) == [i \in 1..rows |-> [j \in 1..out_dim |-> 0]]

\* every indexed row gets the first row of the batch output
AssignFirst(tensor, idxs, rows) ==
    [i \in 1..Len(tensor) |->
        IF \E k \in 1..Len(idxs) : idxs[k] + 1 = i THEN rows[1] ELSE tensor[i]]

\* y_pred[batch_idxs] = y_batch_pred
Assign(tensor, idxs, rows) ==
    [i \in 1..Len(tensor) |->
        IF \E k \in 1..Len(idxs) : idxs[k] + 1 = i
        THEN rows[CHOOSE k \in 1..Len(idxs) : idxs[k] + 1 = i]
        ELSE tensor[i]]

\* the slice taken one place late
BatchIdxsLate(idxs, batch_start, batch_end) == Slice(idxs, batch_start + 1, batch_end)

\* the batch slice of the index array
BatchIdxs(idxs, batch_start, batch_end) == Slice(idxs, batch_start, batch_end)

\* batches one sample too long
PredictBatchesLong(xs, batch_size) == make_batches(Len(xs), batch_size + 1)

\* n = x.size()[0]; batches = make_batches(n, batch_size)
PredictBatches(xs, batch_size) == make_batches(Len(xs), batch_size)

\* the loop of predict from batch k on; acc.y_pred is unbound (None) until
\* the first batch binds it
RECURSIVE PredictLoop(_, _, _, _, _, _)
PredictLoop(xs, bs, k, w, out_dim, acc) ==
    IF k > Len(bs) THEN acc
    ELSE LET batch_idxs   == BatchIdxs(Arange(Len(xs)), bs[k][1], bs[k][2])
             x_batch      == Index(xs, batch_idxs)
             y_batch_pred == Forward(x_batch, w, out_dim)
             bound        == IF k = 1 THEN Zeros(Len(xs), Len(y_batch_pred[1]))
                             ELSE acc.y_pred[1]
         IN  PredictLoop(xs, bs, k + 1, w, out_dim,
                 [y_pred |-> Some(Assign(bound, batch_idxs, y_batch_pred)),
                  writes |-> [i \in 1..Len(xs) |->
                                 acc.writes[i] +
                                 Cardinality({j \in 1..Len(batch_idxs) :
                                                 batch_idxs[j] + 1 = i})]])

\* predict(x, batch_size) on the parameters w: return y_pred raises
\* UnboundLocalError when no batch has bound it
Predict(xs, batch_size, w, out_dim) ==
    LET acc == PredictLoop(xs, PredictBatches(xs, batch_size), 1, w, out_dim,
                           [y_pred |-> None, writes |-> [i \in 1..Len(xs) |-> 0]])
    IN  [raised |-> acc.y_pred = None, y_pred |-> acc.y_pred, writes |-> acc.writes]

\* the predict call of a caller: pc is "returned" or "error" after it
PredictCall ==
    /\ pc = "idle"
    /\ LET r == Predict(args.x, args.batch_size, steps, args.out_dim)
       IN  /\ n' = Len(args.x)
           /\ train_idxs' = Arange(Len(args.x))
           /\ batches' = PredictBatches(args.x, args.batch_size)
           /\ training' = FALSE
           /\ y_pred' = r.y_pred
           /\ writes' = r.writes
           /\ pc' = IF r.raised THEN "error" ELSE "returned"
    /\ UNCHANGED <<args, calls, rng, torch_rng, steps, x, y, val_x, val_y, t,
                   batch_i, n_run, epoch_loss, log, logs, seen, sum_loss, trace,
                   prev_trace, epochs_run, predicts>>

-----------------------------------------------------------------------------
(* FitModule.fit.                                                          *)

\* if seed and seed >= 0
SeedGiven(seed) == seed /= None /\ seed[1] /= 0 /\ seed[1] >= 0

\* elif validation_split and 0. < validation_split < 1.
SplitGiven(vs) == ~IsZero(vs) /\ InUnitInterval(vs)

\* the loop running through epochs itself
EpochsLeftInclusive(epoch, epochs) == epoch <= epochs

\* for t in range(initial_epoch, epochs): another epoch to run
EpochsLeft(epoch, epochs) == epoch < epochs

\* the metrics run whether given or not
MetricsGivenAlways(metrics) == TRUE

\* if metrics
MetricsGiven(metrics) == metrics /= None /\ metrics /= <<>>

\* lines 65-83: seeding, the validation data, the optimizer, train()
FitBegin ==
    /\ pc \in {"idle", "done"}
    /\ calls' = calls + 1
    /\ IF SeedGiven(args.seed)
       THEN rng' = SeedRng(args.seed[1]) /\ torch_rng' = SeedRng(args.seed[1])
       ELSE UNCHANGED <<rng, torch_rng>>
    /\ IF args.validation_data /= None
       THEN /\ val_x' = Some(args.validation_data[1])
            /\ val_y' = Some(args.validation_data[2])
            /\ x' = args.x
            /\ y' = args.y
       ELSE IF SplitGiven(args.validation_split)
       THEN LET split == SplitIndex(Len(args.x), args.validation_split)
            IN  /\ x' = Slice(args.x, 0, split)
                /\ val_x' = Some(Slice(args.x, split, Len(args.x)))
                /\ y' = Slice(args.y, 0, split)
                /\ val_y' = Some(Slice(args.y, split, Len(args.y)))
       ELSE /\ val_x' = None
            /\ val_y' = None
            /\ x' = args.x
            /\ y' = args.y
    /\ logs' = <<>>
    /\ training' = TRUE
    /\ n' = Len(x')
    /\ train_idxs' = Arange(Len(x'))
    /\ t' = args.initial_epoch
    /\ prev_trace' = trace
    /\ trace' = <<>>
    /\ epochs_run' = <<>>
    /\ predicts' = 0
    /\ pc' = "epoch"
    /\ UNCHANGED <<args, steps, batches, batch_i, n_run, epoch_loss, log, y_pred,
                   writes, seen, sum_loss>>

\* lines 84-97: the head of an epoch
EpochBegin ==
    /\ pc = "epoch"
    /\ EpochsLeft(t, args.epochs)
    /\ IF args.shuffle
       THEN /\ train_idxs' = Shuffle(train_idxs, rng)[1]
            /\ rng' = Shuffle(train_idxs, rng)[2]
       ELSE UNCHANGED <<train_idxs, rng>>
    /\ batches' = make_batches(n, args.batch_size)
    /\ batch_i' = 0
    /\ n_run' = 0
    /\ log' = Log
    /\ epoch_loss' = <<0, 1>>
    /\ seen' = <<>>
    /\ sum_loss' = 0
    /\ pc' = "batch"
    /\ UNCHANGED <<args, calls, torch_rng, training, steps, x, y, val_x, val_y, n,
                   t, logs, y_pred, writes, trace, prev_trace, epochs_run,
                   predicts>>

\* lines 99-116: one batch
BatchStep ==
    /\ pc = "batch"
    /\ batch_i < Len(batches)
    /\ LET batch_start  == batches[batch_i + 1][1]
           batch_end    == batches[batch_i + 1][2]
           batch_idxs   == BatchIdxs(train_idxs, batch_start, batch_end)
           x_batch      == Index(x, batch_idxs)
           y_batch      == Index(y, batch_idxs)
           y_batch_pred == Forward(x_batch, steps, args.out_dim)
           batch_loss   == Loss(y_batch_pred, y_batch)
       IN  /\ steps' = steps + 1
           /\ n_run' = n_run + (batch_end - batch_start)
           /\ epoch_loss' = RatAdd(epoch_loss, batch_loss)
           /\ log' = LogSet(log, "train_loss", RatDiv(epoch_loss', n_run'))
           /\ seen' = Append(seen, batch_idxs)
           /\ trace' = Append(trace, batch_idxs)
           /\ sum_loss' = sum_loss +
                  SumSeq([k \in 1..Len(y_batch) |->
                             SampleLoss(y_batch_pred[k], y_batch[k])])
    /\ batch_i' = batch_i + 1
    /\ UNCHANGED <<args, pc, calls, rng, torch_rng, training, x, y, val_x, val_y,
                   n, train_idxs, t, batches, logs, y_pred, writes, prev_trace,
                   epochs_run, predicts>>

\* lines 117-126: the metrics and the log of the epoch
RunMetrics ==
    /\ pc = "batch"
    /\ batch_i = Len(batches)
    /\ IF MetricsGiven(args.metrics)
       THEN LET train == Predict(x, args.batch_size, steps, args.out_dim)
                log1  == add_metrics_to_log(log, args.metrics, y, train.y_pred[1],
                                            DefaultPrefix)
                given == val_x /= None /\ val_y /= None
                val   == Predict(val_x[1], args.batch_size, steps, args.out_dim)
                log2  == add_metrics_to_log(log1, args.metrics, val_y[1],
                                            val.y_pred[1], "val_")
            IN  /\ training' = FALSE
                /\ IF train.raised
                   THEN /\ pc' = "error"
                        /\ predicts' = predicts + 1
                        /\ UNCHANGED <<log, logs, t, epochs_run>>
                   ELSE IF ~given
                   THEN /\ pc' = "epoch"
                        /\ predicts' = predicts + 1
                        /\ log' = log1
                        /\ logs' = Append(logs, log1)
                        /\ epochs_run' = Append(epochs_run, t)
                        /\ t' = t + 1
                   ELSE IF val.raised
                   THEN /\ pc' = "error"
                        /\ predicts' = predicts + 2
                        /\ log' = log1
                        /\ UNCHANGED <<logs, t, epochs_run>>
                   ELSE /\ pc' = "epoch"
                        /\ predicts' = predicts + 2
                        /\ log' = log2
                        /\ logs' = Append(logs, log2)
                        /\ epochs_run' = Append(epochs_run, t)
                        /\ t' = t + 1
       ELSE /\ pc' = "epoch"
            /\ logs' = Append(logs, log)
            /\ epochs_run' = Append(epochs_run, t)
            /\ t' = t + 1
            /\ UNCHANGED <<training, log, predicts>>
    /\ UNCHANGED <<args, calls, rng, torch_rng, steps, x, y, val_x, val_y, n,
                   train_idxs, batches, batch_i, n_run, epoch_loss, y_pred, writes,
                   seen, sum_loss, trace, prev_trace>>

\* line 127: return logs
FitReturn ==
    /\ pc = "epoch"
    /\ ~EpochsLeft(t, args.epochs)
    /\ pc' = "done"
    /\ UNCHANGED <<args, calls, rng, torch_rng, training, steps, x, y, val_x,
                   val_y, n, train_idxs, t, batches, batch_i, n_run, epoch_loss,
                   log, logs, y_pred, writes, seen, sum_loss, trace, prev_trace,
                   epochs_run, predicts>>

-----------------------------------------------------------------------------
(* Specifications.                                                         *)

\* the state before a call, but for args and the generator
Blank ==
    /\ pc = "idle"
    /\ calls = 0
    /\ torch_rng = 0
    /\ training = TRUE
    /\ steps = 0
    /\ x = <<>>
    /\ y = <<>>
    /\ val_x = None
    /\ val_y = None
    /\ n = 0
    /\ train_idxs = <<>>
    /\ t = 0
    /\ batches = <<>>
    /\ batch_i = 0
    /\ n_run = 0
    /\ epoch_loss = <<0, 1>>
    /\ log = Log
    /\ logs = <<>>
    /\ y_pred = None
    /\ writes = <<>>
    /\ seen = <<>>
    /\ sum_loss = 0
    /\ trace = <<>>
    /\ prev_trace = <<>>
    /\ epochs_run = <<>>
    /\ predicts = 0

\* one call of fit
Init ==
    /\ \E N \in 0..MaxN, B \in 1..MaxBatchSize, E \in 0..MaxEpochs,
          I \in 0..MaxInitialEpoch, sh \in BOOLEAN, sd \in {None, Some(1)},
          vs \in {<<0, 1>>, <<1, 2>>},
          vd \in {None, <<ValidationX(0), ValidationY(0)>>,
                  <<ValidationX(1), ValidationY(1)>>},
          ms \in {<<>>, <<"accuracy">>} :
          args = [x |-> DataX(N), y |-> DataY(N), batch_size |-> B, epochs |-> E,
                  validation_split |-> vs, validation_data |-> vd, shuffle |-> sh,
                  initial_epoch |-> I, seed |-> sd, metrics |-> ms, out_dim |-> 1]
    /\ rng = 0
    /\ Blank

Next ==
    \/ calls = 0 /\ FitBegin
    \/ EpochBegin
    \/ BatchStep
    \/ RunMetrics
    \/ FitReturn

Spec == Init /\ [][Next]_vars

\* two calls of fit with the same arguments, one after the other, from any
\* state of the generator
InitSeed ==
    /\ \E N \in 0..MaxN, B \in 1..MaxBatchSize, E \in 0..MaxEpochs, sh \in BOOLEAN,
          sd \in {None, Some(-1), Some(0), Some(1), Some(2)} :
          args = [x |-> DataX(N), y |-> DataY(N), batch_size |-> B, epochs |-> E,
                  validation_split |-> <<0, 1>>, validation_data |-> None,
                  shuffle |-> sh, initial_epoch |-> 0, seed |-> sd,
                  metrics |-> <<>>, out_dim |-> 1]
    /\ rng \in 0..7
    /\ Blank

NextSeed ==
    \/ calls < 2 /\ FitBegin
    \/ EpochBegin
    \/ BatchStep
    \/ RunMetrics
    \/ FitReturn

SpecSeed == InitSeed /\ [][NextSeed]_vars

\* one call of fit, over the validation splits
InitSplit ==
    /\ \E N \in 0..MaxSplitN,
          vs \in {<<-1, 4>>, <<0, 1>>, <<1, 5>>, <<1, 4>>, <<1, 2>>, <<4, 5>>,
                  <<9, 10>>, <<1, 1>>, <<5, 4>>},
          vd \in {None, <<ValidationX(1), ValidationY(1)>>} :
          args = [x |-> DataX(N), y |-> DataY(N), batch_size |-> 3, epochs |-> 1,
                  validation_split |-> vs, validation_data |-> vd, shuffle |-> TRUE,
                  initial_epoch |-> 0, seed |-> None, metrics |-> <<>>,
                  out_dim |-> 1]
    /\ rng = 0
    /\ Blank

SpecSplit == InitSplit /\ [][Next]_vars

\* one call of predict
InitPredict ==
    /\ \E N \in 0..MaxPredictN, B \in 1..MaxPredictBatch, d \in 1..MaxOutDim :
          args = [x |-> DataX(N), batch_size |-> B, out_dim |-> d]
    /\ rng = 0
    /\ Blank

NextPredict == PredictCall

SpecPredict == InitPredict /\ [][NextPredict]_vars

-----------------------------------------------------------------------------
(* Properties.                                                             *)

RECURSIVE Concat(_)
Concat(ss) == IF ss = <<>> THEN <<>> ELSE ss[1] \o Concat(Tail(ss))

Max(a, b) == IF a > b THEN a ELSE b

\* the least k with k * B >= N
Ceil(N, B) == CHOOSE k \in 0..N : k * B >= N /\ (k = 0 \/ (k - 1) * B < N)

IsPermutation(s, k) == Len(s) = k /\ \A v \in 0..(k - 1) : \E i \in 1..k : s[i] = v

\* the batches of the epoch are done
EpochDone == pc = "batch" /\ batch_i = Len(batches)

\* C1: in every epoch the batches, read in order, are the first n_run
\* entries of the epoch's index array, which is a permutation of 0..n-1 (the
\* identity without shuffle); when the batches are done they are all of it:
\* every index exactly once.
C1_BatchesCoverEpoch ==
    pc = "batch" =>
        /\ IsPermutation(train_idxs, n)
        /\ (~args.shuffle => train_idxs = Arange(n))
        /\ Concat(seen) = SubSeq(train_idxs, 1, n_run)
        /\ Len(seen) = batch_i
        /\ (batch_i = Len(batches) => Concat(seen) = train_idxs)

\* a later epoch of a shuffled run is done, in several batches and in an
\* order that is not the identity
C1_Witness ==
    /\ EpochDone
    /\ args.shuffle
    /\ Len(logs) >= 1
    /\ n >= 2
    /\ Len(batches) >= 2
    /\ train_idxs /= Arange(n)
    /\ Concat(seen) = train_idxs

\* C2: make_batches(N, B) gives ceil(N/B) ranges, each of length 1..B, each
\* starting where the one before it ends, the first at 0 and the last ending
\* at N, all but the last of length B; (0,3),(3,6),(6,9),(9,10) for 10 and 3.
C2_BatchPartition ==
    pc /= "idle" =>
        LET N == Len(args.x)
            B == args.batch_size
        IN  /\ Len(batches) = Ceil(N, B)
            /\ \A i \in 1..Len(batches) :
                  /\ batches[i][1] < batches[i][2]
                  /\ batches[i][2] - batches[i][1] <= B
                  /\ batches[i][1] = (IF i = 1 THEN 0 ELSE batches[i - 1][2])
                  /\ (i < Len(batches) => batches[i][2] - batches[i][1] = B)
            /\ (N > 0 => batches[Len(batches)][2] = N)
            /\ (N = 10 /\ B = 3 =>
                   batches = <<<<0, 3>>, <<3, 6>>, <<6, 9>>, <<9, 10>>>>)

C2_Witness ==
    /\ pc /= "idle"
    /\ Len(args.x) = 10
    /\ args.batch_size = 3
    /\ batches = <<<<0, 3>>, <<3, 6>>, <<6, 9>>, <<9, 10>>>>

\* C3: when the batches of an epoch are done, train_loss is the summed loss
\* of the samples processed, divided by the number of samples processed.
C3_TrainLossIsMean ==
    (EpochDone /\ n > 0) =>
        /\ n_run = n
        /\ RatEq(log["train_loss"], <<sum_loss, n_run>>)

\* the validation split is strictly between 0 and 1, as a fraction
StrictlyBetween(vs) == 0 < vs[1] /\ vs[1] < vs[2]

\* floor(N * (1 - vs)) for the fraction vs
FloorSplit(N, vs) == (N * (vs[2] - vs[1])) \div vs[2]

\* C4: the tail from floor(N * (1 - validation_split)) on is split off
\* exactly when no validation_data is given and validation_split is strictly
\* between 0 and 1; x and y are cut alike; no validation sample is trained
\* on; otherwise all N samples are trained on.
C4_SplitIsFloor ==
    pc /= "idle" =>
        LET N == Len(args.x)
            split == FloorSplit(N, args.validation_split)
        IN  IF args.validation_data = None /\ StrictlyBetween(args.validation_split)
            THEN /\ x = SubSeq(args.x, 1, split)
                 /\ y = SubSeq(args.y, 1, split)
                 /\ val_x = Some(SubSeq(args.x, split + 1, N))
                 /\ val_y = Some(SubSeq(args.y, split + 1, N))
                 /\ \A b \in 1..Len(trace) : \A k \in 1..Len(trace[b]) :
                        trace[b][k] < split
            ELSE /\ x = args.x
                 /\ y = args.y
                 /\ (EpochDone => Range(Concat(seen)) = 0..(N - 1))

\* C5: two runs with the same arguments and the same seed >= 0 process the
\* same indices in the same batches.
C5_SeedReproducible ==
    (pc = "done" /\ calls = 2 /\ args.seed /= None /\ args.seed[1] >= 0) =>
        trace = prev_trace

C7_PredictNoError == pc /= "error"

\* C8: the logs are one per epoch run, in epoch order from initial_epoch on;
\* the parameters are stepped once per batch of these epochs only; fit
\* returns max(0, epochs - initial_epoch) logs, none and no batch when
\* initial_epoch >= epochs.
C8_OneLogPerEpoch ==
    pc /= "idle" =>
        LET left == Max(0, args.epochs - args.initial_epoch)
        IN  /\ epochs_run = [i \in 1..Len(logs) |-> args.initial_epoch + i - 1]
            /\ Len(logs) <= left
            /\ steps = Len(trace)
            /\ Len(trace) <= left * Ceil(n, args.batch_size)
            /\ (pc = "done" =>
                   /\ Len(logs) = left
                   /\ Len(trace) = left * Ceil(n, args.batch_size))
            /\ (args.initial_epoch >= args.epochs => logs = <<>> /\ trace = <<>>)

C8_Witness ==
    /\ pc = "done"
    /\ args.initial_epoch = 1
    /\ args.epochs = 2
    /\ Len(logs) = 1
    /\ Len(trace) = 2

\* validation data is given, or is produced by the split
ValidationPresent ==
    args.validation_data /= None \/ StrictlyBetween(args.validation_split)

C10_TrainingMode == (pc = "batch" /\ batch_i < Len(batches)) => training

-----------------------------------------------------------------------------
(* What the code does where C3, C4, C5 and C10 fail.                       *)

\* train_loss is the sum of the batch means, divided by the sample count
TrainLossIsSumOfBatchMeans ==
    (EpochDone /\ n > 0) =>
        /\ n_run = n
        /\ RatEq(log["train_loss"], RatDiv(epoch_loss, n))
        /\ (args.batch_size = 1 => RatEq(log["train_loss"], <<sum_loss, n_run>>))

\* the split index is floor(N * (1 - validation_split)) or one less, and
\* the sets are the head and the tail it cuts
SplitIsFloorOrOneLess ==
    (pc /= "idle" /\ args.validation_data = None
         /\ StrictlyBetween(args.validation_split)) =>
        LET N == Len(args.x)
            exact == FloorSplit(N, args.validation_split)
        IN  /\ n \in {exact, exact - 1}
            /\ x = SubSeq(args.x, 1, n)
            /\ y = SubSeq(args.y, 1, n)
            /\ val_x = Some(SubSeq(args.x, n + 1, N))
            /\ val_y = Some(SubSeq(args.y, n + 1, N))
            /\ (args.validation_split = <<1, 5>> /\ N = 10 => n = 8)

\* a seed >= 1 reproduces the batches
SeedReproducibleFromOne ==
    (pc = "done" /\ calls = 2 /\ args.seed /= None /\ args.seed[1] >= 1) =>
        trace = prev_trace

\* the gradient steps run in training mode until the first predict call
TrainingModeUntilPredict ==
    (pc = "batch" /\ batch_i < Len(batches) /\ predicts = 0) => training

====
